---- MODULE Spec2Model ----
(***************************************************************************)
(* Large-loss threshold search of ll_threshold_experiment.ipynb:           *)
(* claim aggregation, the per-segment exclusion sweep, the drop detection  *)
(* and the per-segment threshold map.                                      *)
(*                                                                         *)
(* Amounts and metrics are integers.  Fractions are kept in percent        *)
(* (0.01 is 1, 0.7 is 70, 1 is 100).  The index of the sweep,              *)
(* int(len * increment * i), is computed in IEEE-754 binary64 as Python    *)
(* computes it; binary64 significands are sequences of bits, least         *)
(* significant first.                                                      *)
(***************************************************************************)
EXTENDS Integers, Sequences, FiniteSets, TLC

VARIABLES
    pc,                   \* position in the notebook
    paid_data,            \* raw paid transactions (sequence of rows)
    ocr_data,             \* raw reserve transactions, loss date normalised
    ocr_claims,           \* MAX reserve per (claim_id, segment, loss_date)
    paid_claims,          \* SUM paid per (claim_id, segment, loss_date)
    combined_df,          \* ClaimRecords, ordered by the group key
    segment_list,         \* segments the loop runs over
    seg_pos,              \* position of the current segment in segment_list
    threshold_percentage, \* the final map
    large_claims,         \* large_claims printed for each finished segment
    claims_percentage,    \* x values of the current segment's sweep
    mack_mse,             \* metric values of the current segment's sweep
    sorted_df,            \* segment_df.sort_values(by gross_amount, descending)
    one_percent_index,    \* cutoff index of the last executed step
    segment_paid,         \* multiplicity of each paid_data row handed to Triangle
    segment_ocr,          \* multiplicity of each ocr_data row handed to Triangle
    max_drop_index,       \* index chosen by the last drop detection
    mack_seen,            \* results the Mack fit has returned, by input
    failed_at,            \* <<segment, step>> of the exception that ended the run
    total_claims,         \* input of the cutoff computation checked alone
    sweep_i,              \* input of the cutoff computation checked alone
    cutoff_out,           \* its result
    metric_series,        \* input of the drop detection checked alone
    drop_out              \* its result

vars == <<pc, paid_data, ocr_data, ocr_claims, paid_claims, combined_df,
          segment_list, seg_pos, threshold_percentage, large_claims,
          claims_percentage, mack_mse, sorted_df, one_percent_index,
          segment_paid, segment_ocr, max_drop_index, mack_seen, failed_at,
          total_claims, sweep_i, cutoff_out, metric_series, drop_out>>

pipeline_vars == <<pc, paid_data, ocr_data, ocr_claims, paid_claims, combined_df,
          segment_list, seg_pos, threshold_percentage, large_claims,
          claims_percentage, mack_mse, sorted_df, one_percent_index,
          segment_paid, segment_ocr, max_drop_index, mack_seen, failed_at>>

cutoff_vars == <<total_claims, sweep_i, cutoff_out>>

drop_vars == <<metric_series, drop_out>>

---------------------------------------------------------------------------
(* Bounds of the model. *)

MaxTotal == 120         \* largest claim count of the cutoff computation alone
MaxSeries == 5          \* longest metric series of the drop detection alone
MaxExtraRows == 1       \* rows added to the base data, paid and reserve together
MaxMetric == 1          \* largest metric value the Mack fit returns
MaxAggRows == 2         \* rows per table of the aggregation checked alone

---------------------------------------------------------------------------
(* Sweep configuration, in percent. *)

StartPct == 100         \* start_point = 1
EndPct == 70            \* end_point = 0.7
IncrementPct == 1       \* increment = 0.01
PctBase == 100          \* 1.00 in percent
SegmentLimit == 4       \* segment_list[:4]
MantissaBits == 53      \* binary64 significand
\* working precision of the literal's division: the quotient of a literal
\* above 2^-8 keeps more than 53 bits and a rounding bit
DivShift == MantissaBits + 11

\* interval = int(round((start_point - end_point) / increment, 0)), half to even
Interval ==
    LET n == StartPct - EndPct
        q == n \div IncrementPct
        r == n % IncrementPct
    IN  IF 2 * r > IncrementPct \/ (2 * r = IncrementPct /\ q % 2 = 1)
        THEN q + 1 ELSE q

---------------------------------------------------------------------------
(* binary64 arithmetic on naturals-as-bits (least significant bit first).  *)
(* A positive double is <<bits, e>>, of value bits * 2^e.                  *)

RECURSIVE NatToBits(_)
NatToBits(n) == IF n = 0 THEN <<>> ELSE <<n % 2>> \o NatToBits(n \div 2)

RECURSIVE BitsToNat(_)
BitsToNat(b) == IF b = <<>> THEN 0 ELSE Head(b) + 2 * BitsToNat(Tail(b))

RECURSIVE MulBits(_, _, _)
MulBits(b, k, carry) ==
    IF b = <<>> THEN NatToBits(carry)
    ELSE LET t == Head(b) * k + carry
         IN  <<t % 2>> \o MulBits(Tail(b), k, t \div 2)

RECURSIVE IncBits(_)
IncBits(b) ==
    IF b = <<>> THEN <<1>>
    ELSE IF Head(b) = 0 THEN <<1>> \o Tail(b)
    ELSE <<0>> \o IncBits(Tail(b))

\* Long division of the number with bits b (most significant first in the
\* recursion) by d: <<quotient bits, remainder>>.
RECURSIVE DivBits(_, _)
DivBits(b, d) ==
    IF b = <<>> THEN <<<<>>, 0>>
    ELSE LET hi == DivBits(Tail(b), d)
             t == 2 * hi[2] + Head(b)
         IN  <<(<<t \div d>>) \o hi[1], t % d>>

RECURSIVE StripBits(_)
StripBits(b) ==
    IF b = <<>> THEN <<>>
    ELSE IF b[Len(b)] = 0 THEN StripBits(SubSeq(b, 1, Len(b) - 1))
    ELSE b

\* Round to nearest, ties to even, to a 53-bit significand:
\* <<bits, number of low bits dropped>>.
RoundToDouble(b, sticky) ==
    IF Len(b) <= MantissaBits THEN <<b, 0>>
    ELSE LET d == Len(b) - MantissaBits
             kept == SubSeq(b, d + 1, Len(b))
             guard == b[d]
             st == sticky \/ (\E j \in 1..(d - 1) : b[j] = 1)
             up == guard = 1 /\ (st \/ kept[1] = 1)
             k2 == IF up THEN IncBits(kept) ELSE kept
         IN  IF Len(k2) > MantissaBits
             THEN <<Tail(k2), d + 1>>
             ELSE <<k2, d>>

\* The double nearest to p / q (a decimal literal such as 0.01 = 1/100).
FloatLiteral(p, q) ==
    LET num == [j \in 1..DivShift |-> 0] \o NatToBits(p)
        qr == DivBits(num, q)
        r == RoundToDouble(StripBits(qr[1]), qr[2] # 0)
    IN  <<r[1], r[2] - DivShift>>

\* double * int (the int converts exactly).
FloatTimesInt(x, k) ==
    IF k = 0 \/ x[1] = <<>> THEN <<<<>>, 0>>
    ELSE LET r == RoundToDouble(MulBits(x[1], k, 0), FALSE)
         IN  <<r[1], x[2] + r[2]>>

\* int(x): truncation.
FloatToInt(x) ==
    IF x[1] = <<>> THEN 0
    ELSE IF x[2] >= 0 THEN BitsToNat([j \in 1..x[2] |-> 0] \o x[1])
    ELSE IF -x[2] >= Len(x[1]) THEN 0
    ELSE BitsToNat(SubSeq(x[1], 1 - x[2], Len(x[1])))

increment == FloatLiteral(IncrementPct, PctBase)

\* int(len * increment*i): two binary64 products, left to right, truncated
FloatIndex(len, i) ==
    FloatToInt(FloatTimesInt(FloatTimesInt(increment, len), i))

\* the values of FloatIndex for the counts and steps of the model, computed once
FloatIndexTable ==
    [len \in 0..MaxTotal |-> [i \in 0..Interval |-> FloatIndex(len, i)]]

\* one_percent_index = int(len(attritional_claims) * increment*i)
OnePercentIndex(len, i) ==
    IF len \in 0..MaxTotal /\ i \in 0..Interval
    THEN FloatIndexTable[len][i]
    ELSE FloatIndex(len, i)

\* floor(total_claims * f_i), with f_i = i * increment taken exactly
ExactCutoff(len, i) == (len * IncrementPct * i) \div PctBase

---------------------------------------------------------------------------
(* The cutoff computation checked alone, over claim counts up to MaxTotal. *)


---------------------------------------------------------------------------
(* Data: a transaction row is [claim_id, segment, loss_date, amount]; the  *)
(* transaction date is read by the triangle library only.  net_* columns   *)
(* are aggregated like gross_* and read by nothing else; they are left out.*)

NaT == 0                \* a missing loss_date (NULL / NaT)
NaN == -1               \* an undefined metric (metrics are sums of standard errors, >= 0)

Row(c, s, d, a) == [claim_id |-> c, segment |-> s, loss_date |-> d, amount |-> a]

Range(f) == {f[x] : x \in DOMAIN f}

RECURSIVE SeqSum(_)
SeqSum(q) == IF q = <<>> THEN 0 ELSE Head(q) + SeqSum(Tail(q))

SetMax(S) == CHOOSE x \in S : \A y \in S : y <= x

\* the rows of a table that belong to one group
GroupRows(data, k) ==
    SelectSeq(data, LAMBDA r : <<r.claim_id, r.segment, r.loss_date>> = k)

GroupKeys(data) == {<<r.claim_id, r.segment, r.loss_date>> : r \in Range(data)}

KeyLess(a, b) ==
    \/ a[1] < b[1]
    \/ a[1] = b[1] /\ a[2] < b[2]
    \/ a[1] = b[1] /\ a[2] = b[2] /\ a[3] < b[3]

\* the keys of S in ascending order (GROUP BY and groupby both give the
\* groups in key order)
RECURSIVE SortKeys(_)
SortKeys(S) ==
    IF S = {} THEN <<>>
    ELSE LET m == CHOOSE a \in S : \A b \in S \ {a} : KeyLess(a, b)
         IN  <<m>> \o SortKeys(S \ {m})

Amounts(rows) == [j \in 1..Len(rows) |-> rows[j].amount]

ClaimRecord(k, g) == [claim_id |-> k[1], segment |-> k[2], loss_date |-> k[3], gross_amount |-> g]

\* .dropna(subset=["loss_date"])
DropNaLossDate(df) == SelectSeq(df, LAMBDA r : r.loss_date # NaT)

\* A plausible slip: SUM where the reserve needs MAX.
OcrClaimsSum(data) ==
    LET keys == SortKeys(GroupKeys(data))
    IN  DropNaLossDate([j \in 1..Len(keys) |->
            ClaimRecord(keys[j], SeqSum(Amounts(GroupRows(data, keys[j]))))])

\* SELECT claim_id, segment, loss_date, MAX(gross_ocr) ... GROUP BY ...; dropna
OcrClaims(data) ==
    LET keys == SortKeys(GroupKeys(data))
    IN  DropNaLossDate([j \in 1..Len(keys) |->
            ClaimRecord(keys[j], SetMax(Range(Amounts(GroupRows(data, keys[j])))))])

\* SELECT claim_id, segment, loss_date, SUM(gross_paid) ... GROUP BY ...; dropna
PaidClaims(data) ==
    LET keys == SortKeys(GroupKeys(data))
    IN  DropNaLossDate([j \in 1..Len(keys) |->
            ClaimRecord(keys[j], SeqSum(Amounts(GroupRows(data, keys[j]))))])

\* pd.concat([ocr_claims, paid_claims]).groupby([claim_id, segment, loss_date])
\*   .agg(gross_amount = sum).reset_index()
CombinedDf(oc, pcl) ==
    LET both == oc \o pcl
        keys == SortKeys(GroupKeys(both))
    IN  [j \in 1..Len(keys) |->
            ClaimRecord(keys[j],
                SeqSum([m \in 1..Len(GroupRows(both, keys[j])) |->
                            GroupRows(both, keys[j])[m].gross_amount]))]

---------------------------------------------------------------------------
(* Inputs. *)

RECURSIVE SeqsUpTo(_, _)
SeqsUpTo(S, n) ==
    IF n = 0 THEN {<<>>}
    ELSE LET shorter == SeqsUpTo(S, n - 1)
         IN  shorter \cup {Append(q, x) : q \in shorter, x \in S}

\* ocr_data after the loss date of a claim was set to that of its earliest
\* transaction: one loss date per claim_id
OneLossDatePerClaim(data) ==
    \A r1 \in Range(data), r2 \in Range(data) :
        r1.claim_id = r2.claim_id => r1.loss_date = r2.loss_date

\* Segment 1 with four claims: gross amounts 6, 3, 1 and 2.
BasePaid == <<Row(1, 1, 1, 4), Row(2, 1, 1, 3), Row(3, 1, 1, 2), Row(3, 1, 1, -1)>>
BaseOcr == <<Row(1, 1, 1, 1), Row(1, 1, 1, 2), Row(4, 1, 1, 2)>>

\* Added rows: one more row of the largest claim 1 or a fifth claim, in
\* either segment, with or without a loss date.
ExtraPaidRows ==
    {Row(1, s, d, a) : s \in {1, 2}, d \in {NaT, 1}, a \in {2}}
        \cup {Row(5, s, d, a) : s \in {1, 2}, d \in {NaT, 1}, a \in {2, 6}}
ExtraOcrRows == {Row(c, s, d, a) : c \in {4, 5}, s \in {1, 2}, d \in {NaT, 1}, a \in {3}}

\* <<paid_data, ocr_data>>: the base data and at most MaxExtraRows more rows
Inputs ==
    {<<BasePaid \o x, BaseOcr \o y>> :
        x \in SeqsUpTo(ExtraPaidRows, MaxExtraRows),
        y \in {z \in SeqsUpTo(ExtraOcrRows, MaxExtraRows) : OneLossDatePerClaim(BaseOcr \o z)}}

AggRows == {Row(c, s, d, a) : c \in {1, 2}, s \in {1}, d \in {NaT, 1, 2}, a \in {-2, 3}}
AggPaidInputs == SeqsUpTo(AggRows, MaxAggRows)
AggOcrInputs == {d \in SeqsUpTo(AggRows, MaxAggRows) : OneLossDatePerClaim(d)}

---------------------------------------------------------------------------
(* Drop detection. Indices are Python's: the first point has index 0.      *)

At(q, k) == q[k + 1]

\* mack_df['mack_mse'].diff().abs(): undefined at index 0 and next to an
\* undefined metric
MackMseDiff(series, k) ==
    IF k = 0 \/ At(series, k) = NaN \/ At(series, k - 1) = NaN THEN NaN
    ELSE IF At(series, k) >= At(series, k - 1)
         THEN At(series, k) - At(series, k - 1)
         ELSE At(series, k - 1) - At(series, k)

\* idxmax: one pass over the labels from k up, undefined values skipped, the
\* best label replaced only by a strictly larger value; <<>> when every
\* value is undefined (idxmax raises)
RECURSIVE IdxMaxFrom(_, _, _)
IdxMaxFrom(series, k, best) ==
    IF k >= Len(series) THEN best
    ELSE LET d == MackMseDiff(series, k)
         IN  IF d = NaN THEN IdxMaxFrom(series, k + 1, best)
             ELSE IF best = <<>> THEN IdxMaxFrom(series, k + 1, <<k>>)
             ELSE IF d > MackMseDiff(series, best[1]) THEN IdxMaxFrom(series, k + 1, <<k>>)
             ELSE IdxMaxFrom(series, k + 1, best)

\* A plausible slip: the last of several equal largest drops.
RECURSIVE IdxMaxLastFrom(_, _, _)
IdxMaxLastFrom(series, k, best) ==
    IF k >= Len(series) THEN best
    ELSE LET d == MackMseDiff(series, k)
         IN  IF d = NaN THEN IdxMaxLastFrom(series, k + 1, best)
             ELSE IF best = <<>> THEN IdxMaxLastFrom(series, k + 1, <<k>>)
             ELSE IF d >= MackMseDiff(series, best[1]) THEN IdxMaxLastFrom(series, k + 1, <<k>>)
             ELSE IdxMaxLastFrom(series, k + 1, best)

MaxDropIndexLast(series) == IdxMaxLastFrom(series, 1, <<>>)

\* A plausible slip: idxmax of the metric itself instead of its differences.
MaxDropIndexOfMetric(series) ==
    LET def == {k \in 0..(Len(series) - 1) : At(series, k) # NaN}
    IN  IF def = {} THEN <<>>
        ELSE <<CHOOSE k \in def : /\ \A j \in def : At(series, j) <= At(series, k)
                                  /\ \A j \in def : j < k => At(series, j) < At(series, k)>>

\* max_drop_index = mack_df['mack_mse_diff'][1:].idxmax()
MaxDropIndex(series) == IdxMaxFrom(series, 1, <<>>)

---------------------------------------------------------------------------
(* The sweep. *)

Min(a, b) == IF a <= b THEN a ELSE b

\* ocr_claims["segment"].unique(): in order of first appearance
RECURSIVE Unique(_)
Unique(q) ==
    IF q = <<>> THEN <<>>
    ELSE LET u == Unique(SubSeq(q, 1, Len(q) - 1))
         IN  IF q[Len(q)] \in Range(u) THEN u ELSE Append(u, q[Len(q)])

SegmentList(oc) == Unique([j \in 1..Len(oc) |-> oc[j].segment])

\* segment_list[:4]
LoopSegments(sl) == SubSeq(sl, 1, Min(SegmentLimit, Len(sl)))

CurrentSegment == LoopSegments(segment_list)[seg_pos]

\* f"Rwanda {segment}"
SegmentKey(seg) == <<"Rwanda", seg>>

\* data.loc[data["segment"] == segment], as the multiplicity of each row
SegmentRows(data, seg) ==
    [r \in 1..Len(data) |-> IF data[r].segment = seg THEN 1 ELSE 0]

\* combined_df.loc[combined_df["segment"] == segment]
SegmentDf(df, seg) == SelectSeq(df, LAMBDA r : r.segment = seg)

\* the orders sort_values(by='gross_amount', ascending=False) can give: the
\* default sort is not stable, so records of equal amount come in any order
SortedOrders(df) ==
    {q \in [1..Len(df) -> Range(df)] :
        /\ Range(q) = Range(df)
        /\ \A j \in 1..(Len(df) - 1) : q[j].gross_amount >= q[j + 1].gross_amount}

\* attritional_claims.iloc[one_percent_index:]
Attritional(sorted, idx) == SubSeq(sorted, idx + 1, Len(sorted))

\* len(attritional_claims) after the cut
RetainedCount(total, idx) == total - Min(idx, total)

\* rows.merge(attritional_claims["claim_id"], on="claim_id"): an inner join,
\* one output row per pair of a row and a retained record of its claim_id
Merge(rows, data, attr) ==
    [r \in 1..Len(data) |->
        rows[r] * Cardinality({j \in 1..Len(attr) : attr[j].claim_id = data[r].claim_id})]

\* A plausible slip: merging at every step, also when nothing is cut.
FilteredAlways(rows, data, sorted, idx) == Merge(rows, data, Attritional(sorted, idx))

\* if one_percent_index>0: rows = rows.merge(...)
Filtered(rows, data, sorted, idx) ==
    IF idx > 0 THEN Merge(rows, data, Attritional(sorted, idx)) ELSE rows

\* A plausible slip: the fraction removed instead of the fraction kept.
ClaimsPercentageRemoved(i) == IncrementPct * i

\* claims_percentage.append(start_point-increment*i)
ClaimsPercentage(i) == StartPct - IncrementPct * i

\* segment_df.sort_values(...).iloc[:one_percent_index]
LargeClaims(sorted, idx) == SubSeq(sorted, 1, Min(idx, Len(sorted)))

MetricValues == 0..MaxMetric

\* what the triangle build and the Mack fit can return for an input that was
\* not fitted before; the same input gives the same result
MackResults(input) ==
    IF \E e \in mack_seen : e[1] = input
    THEN {(CHOOSE e \in mack_seen : e[1] = input)[2]}
    ELSE MetricValues \cup {NaN}

Put(f, k, v) == [x \in DOMAIN f \cup {k} |-> IF x = k THEN v ELSE f[x]]

EmptyMap == [x \in {} |-> 0]

---------------------------------------------------------------------------
(* The notebook, cell by cell. *)

Idle ==
    /\ total_claims = 0 /\ sweep_i = 0 /\ cutoff_out = <<>>
    /\ metric_series = <<>> /\ drop_out = <<>>

NotStarted ==
    /\ ocr_claims = <<>> /\ paid_claims = <<>> /\ combined_df = <<>>
    /\ segment_list = <<>> /\ seg_pos = 0
    /\ threshold_percentage = EmptyMap /\ large_claims = <<>>
    /\ claims_percentage = <<>> /\ mack_mse = <<>>
    /\ sorted_df = <<>> /\ one_percent_index = 0
    /\ segment_paid = <<>> /\ segment_ocr = <<>>
    /\ max_drop_index = <<>> /\ mack_seen = {} /\ failed_at = <<>>

Init ==
    /\ pc = "start"
    /\ \E in \in {x \in Inputs : Len(x[1]) + Len(x[2])
                                  <= Len(BasePaid) + Len(BaseOcr) + MaxExtraRows} :
         /\ paid_data = in[1]
         /\ ocr_data = in[2]
    /\ NotStarted
    /\ Idle

\* cell bb41af61
LoadOcrClaims ==
    /\ pc = "start"
    /\ ocr_claims' = OcrClaims(ocr_data)
    /\ pc' = "ocr_claims"
    /\ UNCHANGED <<paid_data, ocr_data, paid_claims, combined_df, segment_list,
                   seg_pos, threshold_percentage, large_claims, claims_percentage,
                   mack_mse, sorted_df, one_percent_index, segment_paid,
                   segment_ocr, max_drop_index, mack_seen, failed_at>>
    /\ UNCHANGED <<cutoff_vars, drop_vars>>

\* cell 8d4cd04a
LoadPaidClaims ==
    /\ pc = "ocr_claims"
    /\ paid_claims' = PaidClaims(paid_data)
    /\ pc' = "paid_claims"
    /\ UNCHANGED <<paid_data, ocr_data, ocr_claims, combined_df, segment_list,
                   seg_pos, threshold_percentage, large_claims, claims_percentage,
                   mack_mse, sorted_df, one_percent_index, segment_paid,
                   segment_ocr, max_drop_index, mack_seen, failed_at>>
    /\ UNCHANGED <<cutoff_vars, drop_vars>>

\* cell 177bd614
CombineClaims ==
    /\ pc = "paid_claims"
    /\ combined_df' = CombinedDf(ocr_claims, paid_claims)
    /\ pc' = "combined"
    /\ UNCHANGED <<paid_data, ocr_data, ocr_claims, paid_claims, segment_list,
                   seg_pos, threshold_percentage, large_claims, claims_percentage,
                   mack_mse, sorted_df, one_percent_index, segment_paid,
                   segment_ocr, max_drop_index, mack_seen, failed_at>>
    /\ UNCHANGED <<cutoff_vars, drop_vars>>

\* cell 289f8f0f, up to the loop
BeginRun ==
    /\ pc = "combined"
    /\ segment_list' = SegmentList(ocr_claims)
    /\ threshold_percentage' = EmptyMap
    /\ seg_pos' = 1
    /\ pc' = "loop"
    /\ UNCHANGED <<paid_data, ocr_data, ocr_claims, paid_claims, combined_df,
                   large_claims, claims_percentage, mack_mse, sorted_df,
                   one_percent_index, segment_paid, segment_ocr, max_drop_index,
                   mack_seen, failed_at>>
    /\ UNCHANGED <<cutoff_vars, drop_vars>>

\* for segment in segment_list[:4]: the head of the loop body
BeginSegment ==
    /\ pc = "loop"
    /\ seg_pos <= Len(LoopSegments(segment_list))
    /\ claims_percentage' = <<>>
    /\ mack_mse' = <<>>
    /\ sorted_df' \in SortedOrders(SegmentDf(combined_df, CurrentSegment))
    /\ segment_paid' = SegmentRows(paid_data, CurrentSegment)
    /\ segment_ocr' = SegmentRows(ocr_data, CurrentSegment)
    /\ pc' = "sweep"
    /\ UNCHANGED <<paid_data, ocr_data, ocr_claims, paid_claims, combined_df,
                   segment_list, seg_pos, threshold_percentage, large_claims,
                   one_percent_index, max_drop_index, mack_seen, failed_at>>
    /\ UNCHANGED <<cutoff_vars, drop_vars>>

\* one pass of for i in range(interval+1) that runs to its end
SweepStep ==
    /\ pc = "sweep"
    /\ Len(mack_mse) <= Interval
    /\ \E i \in {Len(mack_mse)} :
       \E idx \in {OnePercentIndex(Len(sorted_df), i)} :
       \E p \in {Filtered(segment_paid, paid_data, sorted_df, idx)} :
       \E o \in {Filtered(segment_ocr, ocr_data, sorted_df, idx)} :
           /\ one_percent_index' = idx
           /\ segment_paid' = p
           /\ segment_ocr' = o
           /\ \E m \in MackResults(<<p, o>>) :
                /\ mack_seen' = mack_seen \cup {<<(<<p, o>>), m>>}
                /\ mack_mse' = Append(mack_mse, m)
           /\ claims_percentage' = Append(claims_percentage, ClaimsPercentage(i))
    /\ UNCHANGED <<pc, paid_data, ocr_data, ocr_claims, paid_claims, combined_df,
                   segment_list, seg_pos, threshold_percentage, large_claims,
                   sorted_df, max_drop_index, failed_at>>
    /\ UNCHANGED <<cutoff_vars, drop_vars>>

\* one pass in which the triangle build or the Mack fit raises: nothing
\* catches it, the cell ends there
SweepStepRaises ==
    /\ pc = "sweep"
    /\ Len(mack_mse) <= Interval
    /\ \E i \in {Len(mack_mse)} :
       \E idx \in {OnePercentIndex(Len(sorted_df), i)} :
       \E p \in {Filtered(segment_paid, paid_data, sorted_df, idx)} :
       \E o \in {Filtered(segment_ocr, ocr_data, sorted_df, idx)} :
           /\ ~ \E e \in mack_seen : e[1] = <<p, o>>
           /\ one_percent_index' = idx
           /\ segment_paid' = p
           /\ segment_ocr' = o
           /\ failed_at' = <<CurrentSegment, i>>
    /\ pc' = "aborted"
    /\ UNCHANGED <<paid_data, ocr_data, ocr_claims, paid_claims, combined_df,
                   segment_list, seg_pos, threshold_percentage, large_claims,
                   claims_percentage, mack_mse, sorted_df, max_drop_index,
                   mack_seen>>
    /\ UNCHANGED <<cutoff_vars, drop_vars>>

\* after the sweep: the largest drop, the map entry, large_claims
DropDetect ==
    /\ pc = "sweep"
    /\ Len(mack_mse) = Interval + 1
    /\ MaxDropIndex(mack_mse) # <<>>
    /\ max_drop_index' = MaxDropIndex(mack_mse)
    /\ threshold_percentage' =
         Put(threshold_percentage, SegmentKey(CurrentSegment),
             At(claims_percentage, MaxDropIndex(mack_mse)[1]))
    /\ large_claims' = LargeClaims(sorted_df, one_percent_index)
    /\ seg_pos' = seg_pos + 1
    /\ pc' = "loop"
    /\ UNCHANGED <<paid_data, ocr_data, ocr_claims, paid_claims, combined_df,
                   segment_list, claims_percentage, mack_mse, sorted_df,
                   one_percent_index, segment_paid, segment_ocr, mack_seen,
                   failed_at>>
    /\ UNCHANGED <<cutoff_vars, drop_vars>>

\* every difference undefined: idxmax has nothing to choose and raises
DropDetectRaises ==
    /\ pc = "sweep"
    /\ Len(mack_mse) = Interval + 1
    /\ MaxDropIndex(mack_mse) = <<>>
    /\ failed_at' = <<CurrentSegment, Interval + 1>>
    /\ pc' = "aborted"
    /\ UNCHANGED <<paid_data, ocr_data, ocr_claims, paid_claims, combined_df,
                   segment_list, seg_pos, threshold_percentage, large_claims,
                   claims_percentage, mack_mse, sorted_df, one_percent_index,
                   segment_paid, segment_ocr, max_drop_index, mack_seen>>
    /\ UNCHANGED <<cutoff_vars, drop_vars>>

\* the loop is exhausted
EndRun ==
    /\ pc = "loop"
    /\ seg_pos > Len(LoopSegments(segment_list))
    /\ pc' = "done"
    /\ UNCHANGED <<paid_data, ocr_data, ocr_claims, paid_claims, combined_df,
                   segment_list, seg_pos, threshold_percentage, large_claims,
                   claims_percentage, mack_mse, sorted_df, one_percent_index,
                   segment_paid, segment_ocr, max_drop_index, mack_seen,
                   failed_at>>
    /\ UNCHANGED <<cutoff_vars, drop_vars>>

Next ==
    \/ LoadOcrClaims
    \/ LoadPaidClaims
    \/ CombineClaims
    \/ BeginRun
    \/ BeginSegment
    \/ SweepStep
    \/ SweepStepRaises
    \/ DropDetect
    \/ DropDetectRaises
    \/ EndRun

Spec == Init /\ [][Next]_vars

\* the run for progress: the interpreter executes the cells and the loop
\* passes one after the other and never stops while a step is left to run
SpecLive == Init /\ [][Next]_vars /\ WF_vars(Next)

---------------------------------------------------------------------------
(* The aggregation checked alone, over every small pair of tables. *)

InitAgg ==
    /\ pc = "start"
    /\ paid_data \in AggPaidInputs
    /\ ocr_data \in AggOcrInputs
    /\ NotStarted
    /\ Idle

NextAgg ==
    \/ LoadOcrClaims
    \/ LoadPaidClaims
    \/ CombineClaims

SpecAgg == InitAgg /\ [][NextAgg]_vars

---------------------------------------------------------------------------
(* The cutoff computation checked alone, over claim counts up to MaxTotal. *)

InitCutoff ==
    /\ pc = "cutoff"
    /\ paid_data = <<>> /\ ocr_data = <<>>
    /\ NotStarted
    /\ total_claims \in 0..MaxTotal
    /\ sweep_i \in 0..Interval
    /\ cutoff_out = <<>>
    /\ metric_series = <<>> /\ drop_out = <<>>

ComputeCutoff ==
    /\ pc = "cutoff"
    /\ cutoff_out = <<>>
    /\ cutoff_out' = <<OnePercentIndex(total_claims, sweep_i)>>
    /\ UNCHANGED <<total_claims, sweep_i, drop_vars, pipeline_vars>>

NextCutoff == ComputeCutoff

SpecCutoff == InitCutoff /\ [][NextCutoff]_vars

---------------------------------------------------------------------------
(* The drop detection checked alone, over every short metric series. *)

DropValues == {49, 50, 93, 95, 100}

InitDrop ==
    /\ pc = "drop"
    /\ paid_data = <<>> /\ ocr_data = <<>>
    /\ NotStarted
    /\ total_claims = 0 /\ sweep_i = 0 /\ cutoff_out = <<>>
    /\ metric_series \in {q \in SeqsUpTo(DropValues \cup {NaN}, MaxSeries) : Len(q) >= 2}
    /\ drop_out = <<>>

DetectDrop ==
    /\ pc = "drop"
    /\ drop_out = <<>>
    /\ drop_out' = <<MaxDropIndex(metric_series)>>
    /\ UNCHANGED <<metric_series, cutoff_vars, pipeline_vars>>

NextDrop == DetectDrop

SpecDrop == InitDrop /\ [][NextDrop]_vars

---------------------------------------------------------------------------
(* The run on claims whose paid and reserve rows give different loss dates: *)
(* paid_data keeps the loss date of each row, so one claim_id can have     *)
(* several ClaimRecords.                                                   *)

\* the reserve row of one claim c carries loss date d; every table has a
\* loss date in every row
MergeOcrInputs ==
    {<<Row(1, 1, 1, 1), Row(1, 1, 1, 2), Row(c, 1, d, 2)>> :
        c \in {2, 3, 4}, d \in {1, 2}}

InitMerge ==
    /\ pc = "start"
    /\ paid_data = BasePaid
    /\ ocr_data \in MergeOcrInputs
    /\ NotStarted
    /\ Idle

SpecMerge == InitMerge /\ [][Next]_vars

---------------------------------------------------------------------------
(* Properties. *)

JustDetected == pc \in {"loop", "done"} /\ max_drop_index # <<>>

LastSegment == LoopSegments(segment_list)[seg_pos - 1]

\* C1: at every step the retained count is total_claims - floor(total_claims
\* * f_i), with f_i = i * 0.01.  The code's index is a binary64 product,
\* truncated: it is one less than the floor where the product rounds below an
\* integer.
C1_RetainedCount ==
    cutoff_out # <<>> =>
        RetainedCount(total_claims, cutoff_out[1])
            = total_claims - ExactCutoff(total_claims, sweep_i)

C2_Delta(k) ==
    LET a == metric_series[k + 1]
        b == metric_series[k]
    IN  IF a >= b THEN a - b ELSE b - a

C2_Defined == {k \in 1..(Len(metric_series) - 1) :
                  metric_series[k + 1] # NaN /\ metric_series[k] # NaN}

\* C2: the drop detection selects the index k in 1..n-1 with the largest
\* |metric[k] - metric[k-1]| among the defined differences, the smallest such
\* index when several are largest; [10.0, 9.5, 9.3, 5.0, 4.9] gives index 3
\* (metrics are in tenths here).
C2_DropSelection ==
    drop_out # <<>> =>
        /\ C2_Defined = {} <=> drop_out[1] = <<>>
        /\ C2_Defined # {} =>
             /\ drop_out[1][1] \in C2_Defined
             /\ \A j \in C2_Defined : C2_Delta(j) <= C2_Delta(drop_out[1][1])
             /\ \A j \in C2_Defined :
                  j < drop_out[1][1] => C2_Delta(j) < C2_Delta(drop_out[1][1])
        /\ metric_series = <<100, 95, 93, 50, 49>> => drop_out[1] = <<3>>

\* a series with two equal largest drops, the earlier one selected
C2_Witness ==
    /\ drop_out # <<>>
    /\ drop_out[1] # <<>>
    /\ \E j \in C2_Defined :
         j > drop_out[1][1] /\ C2_Delta(j) = C2_Delta(drop_out[1][1])
    /\ \A k \in 1..Len(metric_series) : metric_series[k] # NaN

\* C3: the drop detection never selects the first sweep point (index 0).
C3_NeverFirstPoint ==
    max_drop_index # <<>> => max_drop_index[1] \in 1..Interval

\* a finished sweep whose first point has the largest metric
C3_Witness ==
    /\ JustDetected
    /\ mack_mse[1] = MaxMetric
    /\ mack_mse[Len(mack_mse)] = 0

C5_LargeClaimsOfSelectedStep ==
    JustDetected =>
        large_claims
            = SubSeq(sorted_df, 1, OnePercentIndex(Len(sorted_df), max_drop_index[1]))

C7_FailedStepRecorded ==
    (failed_at # <<>> /\ failed_at[2] <= Interval) =>
        /\ pc # "aborted"
        /\ Len(mack_mse) > failed_at[2]
        /\ At(mack_mse, failed_at[2]) = NaN

\* C8: when the run completes the map holds one result for every segment of
\* the claim data.
C8_EverySegmentHasResult ==
    pc = "done" =>
        DOMAIN threshold_percentage
            = {SegmentKey(rec.segment) : rec \in Range(combined_df)}

C9_Triples ==
    {<<r.claim_id, r.segment, r.loss_date>> :
        r \in {x \in Range(paid_data) \cup Range(ocr_data) : x.loss_date # NaT}}

C9_RowsOf(data, k) ==
    {r \in 1..Len(data) : <<data[r].claim_id, data[r].segment, data[r].loss_date>> = k}

RECURSIVE C9_Total(_, _)
C9_Total(data, rows) ==
    IF rows = {} THEN 0
    ELSE LET r == CHOOSE x \in rows : TRUE
         IN  data[r].amount + C9_Total(data, rows \ {r})

C9_Reserve(k) ==
    IF C9_RowsOf(ocr_data, k) = {} THEN 0
    ELSE CHOOSE m \in {ocr_data[r].amount : r \in C9_RowsOf(ocr_data, k)} :
            \A r \in C9_RowsOf(ocr_data, k) : ocr_data[r].amount <= m

\* C9: one ClaimRecord per (claim_id, segment, loss_date) of the paid and
\* reserve rows that carry a loss date; its gross amount is the sum of the
\* triple's paid amounts plus the largest of its reserve amounts, a missing
\* side counting 0, negative values kept.
C9_OneRecordPerTriple ==
    pc = "combined" =>
        /\ Len(combined_df) = Cardinality(C9_Triples)
        /\ {<<rec.claim_id, rec.segment, rec.loss_date>> : rec \in Range(combined_df)}
             = C9_Triples
        /\ \A j \in 1..Len(combined_df) :
             LET k == <<combined_df[j].claim_id, combined_df[j].segment,
                        combined_df[j].loss_date>>
             IN  combined_df[j].gross_amount
                   = C9_Total(paid_data, C9_RowsOf(paid_data, k)) + C9_Reserve(k)

\* a negative record made of two paid rows and two different reserve rows
C9_Witness ==
    /\ pc = "combined"
    /\ \E j \in 1..Len(combined_df) :
         LET k == <<combined_df[j].claim_id, combined_df[j].segment,
                    combined_df[j].loss_date>>
         IN  /\ combined_df[j].gross_amount < 0
             /\ Cardinality(C9_RowsOf(paid_data, k)) = 2
             /\ Cardinality(C9_RowsOf(ocr_data, k)) = 2
             /\ \E r1, r2 \in C9_RowsOf(ocr_data, k) :
                  ocr_data[r1].amount # ocr_data[r2].amount

\* the claims of a segment none of whose rows carries a loss date
C10_MissingLossDate(seg) ==
    {c \in {r.claim_id : r \in Range(paid_data) \cup Range(ocr_data)} :
        /\ \E r \in Range(paid_data) \cup Range(ocr_data) :
             r.claim_id = c /\ r.segment = seg
        /\ \A r \in Range(paid_data) \cup Range(ocr_data) :
             (r.claim_id = c /\ r.segment = seg) => r.loss_date = NaT}

\* C10: a claim whose loss date is missing has no ClaimRecord and, at every
\* step, none of its rows is among those handed to the triangle build.
C10_MissingLossDateExcluded ==
    (pc = "sweep" /\ Len(mack_mse) >= 1) =>
        /\ \A rec \in Range(sorted_df) :
             rec.claim_id \notin C10_MissingLossDate(CurrentSegment)
        /\ \A r \in 1..Len(paid_data) :
             paid_data[r].claim_id \in C10_MissingLossDate(CurrentSegment)
                => segment_paid[r] = 0
        /\ \A r \in 1..Len(ocr_data) :
             ocr_data[r].claim_id \in C10_MissingLossDate(CurrentSegment)
                => segment_ocr[r] = 0

\* the claim_ids of the records kept at the last executed step
C11_RetainedIds ==
    {sorted_df[j].claim_id : j \in (one_percent_index + 1)..Len(sorted_df)}

C11_Expected(data) ==
    [r \in 1..Len(data) |->
        IF data[r].segment = CurrentSegment /\ data[r].claim_id \in C11_RetainedIds
        THEN 1 ELSE 0]

\* C11: at every step the paid and the reserve rows handed to the triangle
\* build are the segment's raw rows whose claim_id has a retained record, each
\* exactly once and none else, whatever the earlier steps filtered.
C11_HandedRowsExact ==
    (pc = "sweep" /\ Len(mack_mse) >= 1) =>
        /\ segment_paid = C11_Expected(paid_data)
        /\ segment_ocr = C11_Expected(ocr_data)

\* the claim_ids cut at index idx of an order q of the segment's records
C12_ExcludedIds(q, idx) == {q[j].claim_id : j \in 1..Min(idx, Len(q))}

\* C12: the claims excluded at a step are determined by the segment's
\* ClaimRecords and the step: every order the descending sort by gross amount
\* can give cuts the same claims as the order of this run, also with equal
\* gross amounts at the cutoff.
C12_ExclusionDetermined ==
    (pc = "sweep" /\ Len(mack_mse) >= 1) =>
        \A q \in SortedOrders(SegmentDf(combined_df, CurrentSegment)) :
            C12_ExcludedIds(q, one_percent_index)
                = C12_ExcludedIds(sorted_df, one_percent_index)

\* one point per visited fraction, the fractions 0, increment, 2 increment, ...
\* in ascending order (claims_percentage holds what is kept, 1 - fraction)
C13_PointsInOrder ==
    /\ Len(claims_percentage) = Len(mack_mse)
    /\ Len(mack_mse) <= Interval + 1
    /\ \A k \in 1..Len(claims_percentage) :
         PctBase - claims_percentage[k] = IncrementPct * (k - 1)

\* the drop detection has run for a segment only on its complete sweep
C13_DetectionAfterDone == JustDetected => Len(mack_mse) = Interval + 1

\* C13: the sweep of every segment visits the fractions 0.00 .. 0.30 once
\* each in ascending order with one point per fraction, always runs on to the
\* last fraction, and the drop detection runs only on the complete sweep.
C13_SweepTerminates ==
    /\ [](C13_PointsInOrder /\ C13_DetectionAfterDone)
    /\ (pc = "sweep") ~> (Len(mack_mse) = Interval + 1)

====
